---- MODULE Spec2Model ----
(***************************************************************************)
(* A model of synthesizer/synth.py: the WaveSynth facade, the oscillators  *)
(* and the filters, as the generators they are.  A generator is a state    *)
(* machine whose step is one next(): the code that runs from one yield to  *)
(* the next, or to the end of the generator, or to an exception.           *)
(*                                                                         *)
(* Numbers.  The filters' clocks and ramps are Python floats that are      *)
(* accumulated sample after sample (time += increment, amp += amp_change), *)
(* so their rounding decides how many samples a segment holds.  They are   *)
(* modelled as binary floating point numbers with round-half-even, with a  *)
(* mantissa of MantBits bits instead of 53: a float is the integer n that  *)
(* stands for n / 2^FracBits.                                              *)
(***************************************************************************)
EXTENDS Integers, Sequences, FiniteSets, TLC

(***************************************************************************)
(* Bounds of the model.                                                    *)
(***************************************************************************)
MantBits == 8
FracBits == 11
MaxPulls == 12
SrcLen == 4
SampleRate == 8
Grid == 4
MaxSamples == 3
MaxGenPulls == 4
MaxEchoPulls == 7

\* The longest source of a MixingFilter or an AmpMudulationFilter.
MaxMixLen == 3

\* The number of samples pulled from a Pulse or FastPulse with PWM.
MaxPwmPulls == 8

\* The number of samples pulled from an oscillator with an FM LFO.
MaxFMPulls == 4

\* The number of samples pulled from a ClipFilter.
MaxClipPulls == 3

VARIABLES
    ep,     \* EnvelopeFilter: the constructor's arguments (self._attack, ...)
    est,    \* EnvelopeFilter.generator: its locals and its position
    eout,   \* EnvelopeFilter.generator: what it has yielded so far
    dp,     \* DelayFilter: the constructor's arguments
    dst,    \* DelayFilter.generator: its position
    dout,   \* DelayFilter.generator: what it has yielded so far
    ws,     \* the WaveSynth object: whether it is made, and its samplewidth
    call,   \* the arguments the bounded and the streaming operation are called with
    rend,   \* the bounded operation: how it ended and the integers it rendered
    gen,    \* the streaming operation: its generator's position, locals and output
    op,     \* the arguments two oscillators are built with directly
    fast,   \* the generator of the fast oscillator
    full,   \* the generator of the oscillator with FM
    ecp,    \* EchoFilter: the constructor's arguments
    ecg,    \* EchoFilter: whether it is built, its generator's position and output
    mxp,    \* MixingFilter, AmpMudulationFilter: which one, and how long its sources are
    mxg,    \* their generator: how far each source is advanced, and the output
    pwp,    \* Pulse, FastPulse with a PWM LFO: the constructor's arguments
    pwg,    \* their generator: its locals and its output
    fmp,    \* an oscillator with an FM LFO: the constructor's arguments
    fmg,    \* its generator: its locals, and the phase arguments and frequencies so far
    clp,    \* ClipFilter: the constructor's arguments
    clg     \* ClipFilter.generator: the source's samples and what it yielded for them

vars == <<ep, est, eout, dp, dst, dout, ws, call, rend, gen, op, fast, full,
          ecp, ecg, mxp, mxg, pwp, pwg, fmp, fmg, clp, clg>>
envVars == <<ep, est, eout>>
delayVars == <<dp, dst, dout>>
synthVars == <<ws, call, rend, gen>>
oscVars == <<op, fast, full>>
echoVars == <<ecp, ecg>>
mixVars == <<mxp, mxg>>
pwmVars == <<pwp, pwg>>
fmVars == <<fmp, fmg>>
clipVars == <<clp, clg>>
\* the components an action of the classes above leaves alone
filterVars == <<echoVars, mixVars, pwmVars, fmVars, clipVars>>

(***************************************************************************)
(* Python float arithmetic, at MantBits bits.                              *)
(***************************************************************************)
RECURSIVE Pow2(_)
Pow2(n) == IF n = 0 THEN 1 ELSE 2 * Pow2(n - 1)

FUnit == Pow2(FracBits)

\* N / D (N >= 0, D > 0) rounded to the nearest integer, ties to even.
RoundHalfEven(N, D) ==
    LET q == N \div D
        r == N % D
    IN  IF 2 * r > D \/ (2 * r = D /\ q % 2 = 1) THEN q + 1 ELSE q

\* N / D (N >= 0, D > 0) rounded to MantBits significant bits.
RECURSIVE RoundMant(_, _)
RoundMant(N, D) ==
    IF N \div D >= Pow2(MantBits)
    THEN 2 * RoundMant(N, 2 * D)
    ELSE RoundHalfEven(N, D)

\* The float nearest to N / D (D > 0).
FRat(N, D) == IF N >= 0 THEN RoundMant(N, D) ELSE 0 - RoundMant(0 - N, D)

FAdd(a, b) == FRat(a + b, 1)
FSub(a, b) == FRat(a - b, 1)
FMul(a, b) == FRat(a * b, FUnit)
FDiv(a, b) == IF b > 0 THEN FRat(a * FUnit, b) ELSE FRat(0 - a * FUnit, 0 - b)
Abs(x) == IF x >= 0 THEN x ELSE 0 - x
Max(x, y) == IF x >= y THEN x ELSE y

\* int(x): truncation toward zero
FInt(a) == IF a >= 0 THEN a \div FUnit ELSE 0 - ((0 - a) \div FUnit)
\* float(i) of a small integer
FOfInt(i) == i * FUnit

(***************************************************************************)
(* The source of a filter: an iterator that yields Src(0), Src(1), ...     *)
(***************************************************************************)
Src(i) == FOfInt((i % 7) + 1)

(***************************************************************************)
(* EnvelopeFilter                                                          *)
(***************************************************************************)
EnvRates == {3, 7}
EnvTimes == {0, FUnit \div 2, FUnit}
EnvLevels == {0, FUnit \div 2, FUnit}

\* EnvelopeFilter.__init__: the asserts hold of every member.
EnvParams ==
    [samplerate : EnvRates, attack : EnvTimes, decay : EnvTimes,
     sustain : EnvTimes, sustain_level : EnvLevels, release : EnvTimes,
     stop_at_end : BOOLEAN, cycle : BOOLEAN]

end_time_decay(p) == FAdd(p.attack, p.decay)
end_time_sustain(p) == FAdd(end_time_decay(p), p.sustain)
end_time_release(p) == FAdd(end_time_sustain(p), p.release)
increment(p) == FDiv(FOfInt(1), FOfInt(p.samplerate))

\* the sustain loop with "<=" for "<"
InSustainOrAt(p, s) == s.time <= end_time_sustain(p)
\* while time < end_time_sustain:
InSustain(p, s) == s.time < end_time_sustain(p)

\* an envelope that ends whatever stop_at_end is
EnvAfterEnds(p) == "ended"
\* After the loop: "if not self._stop_at_end: while True: yield 0.0".
EnvAfter(p) == IF p.stop_at_end THEN "ended" ELSE "zeros"

\* The segments whose yield consumes a source sample.
EnvSegments == {"attack", "decay", "sustain", "release", "tail"}

\* pulls counts the next() calls, cycles the entries of "while True:".
EnvNew == [pc |-> "new", time |-> 0, amp |-> 0, amp_change |-> 0, consumed |-> 0,
           cycles |-> 0, pulls |-> 0]

\* The generator's code from the control point `at` to its next yield, to its
\* end ("ended") or for ever without a yield ("hang").  A yield leaves pc at
\* the segment that yielded; top is TRUE once "while True:" was entered in
\* this run, and coming back to it without a yield in between repeats for ever.
RECURSIVE EnvRun(_, _, _, _)
EnvRun(p, at, s, top) ==
    CASE at = "top" ->
            IF top THEN [s EXCEPT !.pc = "hang"]
            ELSE EnvRun(p, "if_attack", [s EXCEPT !.time = 0, !.cycles = s.cycles + 1], TRUE)
      [] at = "if_attack" ->
            IF p.attack # 0
            THEN EnvRun(p, "while_attack",
                        [s EXCEPT !.amp_change = FMul(FDiv(FOfInt(1), p.attack), increment(p)),
                                  !.amp = 0], top)
            ELSE EnvRun(p, "if_decay", s, top)
      [] at = "while_attack" ->
            IF s.time < p.attack THEN [s EXCEPT !.pc = "attack"]
            ELSE EnvRun(p, "if_decay", s, top)
      [] at = "if_decay" ->
            IF p.decay # 0
            THEN EnvRun(p, "while_decay",
                        [s EXCEPT !.amp = FOfInt(1),
                                  !.amp_change = FMul(FDiv(FSub(p.sustain_level, FOfInt(1)), p.decay),
                                                      increment(p))], top)
            ELSE EnvRun(p, "while_sustain", s, top)
      [] at = "while_decay" ->
            IF s.time < end_time_decay(p) THEN [s EXCEPT !.pc = "decay"]
            ELSE EnvRun(p, "while_sustain", s, top)
      [] at = "while_sustain" ->
            IF InSustain(p, s) THEN [s EXCEPT !.pc = "sustain"]
            ELSE EnvRun(p, "if_release", s, top)
      [] at = "if_release" ->
            IF p.release # 0
            THEN EnvRun(p, "while_release",
                        [s EXCEPT !.amp = p.sustain_level,
                                  !.amp_change = FMul(FDiv(0 - p.sustain_level, p.release),
                                                      increment(p))], top)
            ELSE EnvRun(p, "if_cycle", s, top)
      [] at = "while_release" ->
            IF s.time < end_time_release(p) THEN [s EXCEPT !.pc = "release"]
            ELSE IF s.amp > 0 THEN [s EXCEPT !.pc = "tail"]
            ELSE EnvRun(p, "if_cycle", s, top)
      [] at = "if_cycle" ->
            IF p.cycle THEN EnvRun(p, "top", s, top)
            ELSE [s EXCEPT !.pc = EnvAfter(p)]

\* The code between a yield and the next loop test.
EnvResume(p, s) ==
    CASE s.pc = "new" -> EnvRun(p, "top", s, FALSE)
      [] s.pc = "attack" ->
            EnvRun(p, "while_attack",
                   [s EXCEPT !.amp = FAdd(s.amp, s.amp_change),
                             !.time = FAdd(s.time, increment(p))], FALSE)
      [] s.pc = "decay" ->
            EnvRun(p, "while_decay",
                   [s EXCEPT !.amp = FAdd(s.amp, s.amp_change),
                             !.time = FAdd(s.time, increment(p))], FALSE)
      [] s.pc = "sustain" ->
            EnvRun(p, "while_sustain",
                   [s EXCEPT !.time = FAdd(s.time, increment(p))], FALSE)
      [] s.pc = "release" ->
            EnvRun(p, "while_release",
                   [s EXCEPT !.amp = FAdd(s.amp, s.amp_change),
                             !.time = FAdd(s.time, increment(p))], FALSE)
      [] s.pc = "tail" -> EnvRun(p, "if_cycle", s, FALSE)
      [] s.pc \in {"zeros", "ended"} -> s

\* The factor the yield at s.pc multiplies the source sample by.
EnvMultiplier(p, s) == IF s.pc = "sustain" THEN p.sustain_level ELSE s.amp

\* One next() of EnvelopeFilter.generator.
\* A next() of the ended generator raises StopIteration again.
EnvPull ==
    /\ est.pc # "hang"
    /\ est.pulls < MaxPulls
    /\ LET s == EnvResume(ep, est)
       IN  /\ est' = [s EXCEPT !.pulls = s.pulls + 1,
                               !.consumed = IF s.pc \in EnvSegments
                                            THEN s.consumed + 1 ELSE s.consumed]
           /\ eout' = CASE s.pc \in EnvSegments ->
                             Append(eout, [seg |-> s.pc, src |-> s.consumed, cycle |-> s.cycles,
                                           mult |-> EnvMultiplier(ep, s),
                                           val |-> FMul(Src(s.consumed), EnvMultiplier(ep, s))])
                        [] s.pc = "zeros" ->
                             Append(eout, [seg |-> "zeros", src |-> 0 - 1, cycle |-> s.cycles,
                                           mult |-> 0, val |-> 0])
                        [] OTHER -> eout
    /\ UNCHANGED <<ep, delayVars, synthVars, oscVars, filterVars>>

(***************************************************************************)
(* DelayFilter                                                             *)
(***************************************************************************)
DelayRates == {4, 6}
DelaySeconds == {(k * FUnit) \div 8 : k \in (0 - 12) .. 12}
DelayParams == [samplerate : DelayRates, seconds : DelaySeconds]

\* the count rounded up, not truncated
DelayCountCeil(p) ==
    IF p.seconds < 0
    THEN 0 - FInt(FMul(FOfInt(p.samplerate), p.seconds) - (FUnit - 1))
    ELSE FInt(FMul(FOfInt(p.samplerate), p.seconds) + (FUnit - 1))

\* range(int(-self._samplerate*self._seconds)), range(int(self._samplerate*self._seconds))
DelayCount(p) ==
    IF p.seconds < 0
    THEN FInt(FMul(FOfInt(0 - p.samplerate), p.seconds))
    ELSE FInt(FMul(FOfInt(p.samplerate), p.seconds))

DelayNew == [pc |-> "new", zeros |-> 0, next |-> 0]

\* One next() of DelayFilter.generator, over a source of SrcLen samples.
DelayPull ==
    /\ dst.pc \notin {"ended", "failed"}
    /\ LET n == DelayCount(dp)
           \* the source index "yield from src" is at when the loops are over
           from == IF dst.pc = "new" /\ dp.seconds < 0 THEN n ELSE dst.next
       IN  IF dst.pc = "new" /\ dp.seconds < 0 /\ n > SrcLen
           THEN \* next(src) raises StopIteration inside the generator
                /\ dst' = [dst EXCEPT !.pc = "failed"]
                /\ dout' = dout
           ELSE IF dp.seconds >= 0 /\ dst.zeros < n
           THEN /\ dst' = [dst EXCEPT !.pc = "zeros", !.zeros = dst.zeros + 1]
                /\ dout' = Append(dout, [val |-> 0, src |-> 0 - 1])
           ELSE IF from < SrcLen
           THEN /\ dst' = [dst EXCEPT !.pc = "source", !.next = from + 1]
                /\ dout' = Append(dout, [val |-> Src(from), src |-> from])
           ELSE /\ dst' = [dst EXCEPT !.pc = "ended", !.next = from]
                /\ dout' = dout
    /\ UNCHANGED <<dp, envVars, synthVars, oscVars, filterVars>>

(***************************************************************************)
(* Oscillators.                                                            *)
(*                                                                         *)
(* Their arithmetic is modelled exactly, on grids fine enough to hold every *)
(* number the chosen parameters produce: frequencies are whole Hz,         *)
(* amplitude, bias, phase, pulse width and the modulators' values are      *)
(* multiples of 1/Grid, the time t is the number of samples yielded (t     *)
(* grows by 1/samplerate a sample), and a phase argument (tt in the code;  *)
(* for Sine and Harmonics the angle divided by 2*pi) is a whole number of  *)
(* ticks, Ticks to the cycle.  A value an oscillator yields is the         *)
(* rational scale * num / den, where scale is the factor WaveSynth has     *)
(* multiplied amplitude and bias by (1 for an oscillator built directly).  *)
(***************************************************************************)
Ticks == 4 * SampleRate * Grid
HalfTicks == Ticks \div 2
\* The denominator of the values of the periodic oscillators.
CDen == Ticks * Grid

\* math.sin of x ticks, as a multiple of 1/Ticks: Bhaskara's approximation
\* 16u(1-u) / (5 - 4u(1-u)) of sin(pi*u), rounded.
SinT(x) ==
    LET k == (x % Ticks) % HalfTicks
        v == RoundHalfEven(16 * k * (HalfTicks - k) * Ticks,
                           5 * HalfTicks * HalfTicks - 4 * k * (HalfTicks - k))
    IN  IF (x % Ticks) < HalfTicks THEN v ELSE 0 - v

\* int(x) of the rational N / D (D > 0): truncation toward zero.
PyInt(N, D) == IF N >= 0 THEN N \div D ELSE 0 - ((0 - N) \div D)

\* 4.0*(fabs((tt+0.75) % 1.0 - 0.5)-0.25), times Ticks
TriangleShape(tt) == 4 * (Abs(((tt + 3 * (Ticks \div 4)) % Ticks) - HalfTicks) - Ticks \div 4)
\* -1 if int(tt*2) % 2 else 1, times Ticks
SquareShape(tt) == IF PyInt(2 * tt, Ticks) % 2 = 1 THEN 0 - Ticks ELSE Ticks
\* 2.0*(tt - floor(0.5+tt)), times Ticks
SawtoothShape(tt) == 2 * (tt - Ticks * ((HalfTicks + tt) \div Ticks))
\* 1 if tt % 1.0 < pw else -1, times Ticks; pw2 is the pulse width in half ticks
PulseShape(tt, pw2) == IF 2 * (tt % Ticks) < pw2 THEN Ticks ELSE 0 - Ticks

\* A pulse width of pw / Grid in half ticks.
PulseWidth2(pw) == 2 * pw * (Ticks \div Grid)
\* Pulse.generator: "if pw <= 0.0: pw = epsilon; elif pw >= 1.0: pw = 1.0-epsilon".
\* sys.float_info.epsilon is positive and below every phase but 0: half a tick.
ClampedPulseWidth2(pw) ==
    IF pw <= 0 THEN 1
    ELSE IF pw >= Grid THEN 2 * Ticks - 1
    ELSE PulseWidth2(pw)

\* The modulators: what next() of an LFO yields for sample i, times Grid.
\* "none" is no LFO (None), "zero" an LFO that yields 0.0 for ever, "wobble"
\* one that yields 1/Grid and -1/Grid in turn, "half" one that yields 0.5.
ModAt(m, i) ==
    CASE m = "wobble" -> IF i % 2 = 0 THEN 1 ELSE 0 - 1
      [] m = "half" -> Grid \div 2
      [] OTHER -> 0

\* harmonics of SquareH and SawtoothH: (n, 1.0/n), the weight as a multiple
\* of 1/Ticks.
Weight(n) == RoundHalfEven(Ticks, n)
NumHarmonics == 16
SquareHarmonics == [i \in 1 .. NumHarmonics |-> <<2 * i - 1, Weight(2 * i - 1)>>]
SawtoothHarmonics == [i \in 1 .. NumHarmonics |-> <<i, Weight(i)>>]
\* the argument of the self check: [(n, 1/n) for n in range(1, 8)]
CheckHarmonics == [i \in 1 .. 7 |-> <<i, Weight(i)>>]

\* sin(q*k)*amp, a product of two multiples of 1/Ticks, rounded
HarmonicTerm(q, h) ==
    LET s == SinT(q * h[1])
    IN  IF s >= 0 THEN RoundHalfEven(s * h[2], Ticks)
        ELSE 0 - RoundHalfEven((0 - s) * h[2], Ticks)

\* Harmonics.generator: "for k, amp in harmonics: h += sin(q*k)*amp", over the
\* harmonics below the Nyquist frequency (h[0]*self.frequency <= self._samplerate/2).
RECURSIVE HarmonicSum(_, _, _, _)
HarmonicSum(o, q, hs, i) ==
    IF i > Len(hs) THEN 0
    ELSE (IF 2 * hs[i][1] * o.frequency <= SampleRate THEN HarmonicTerm(q, hs[i]) ELSE 0)
         + HarmonicSum(o, q, hs, i + 1)

FMClasses == {"Sine", "Triangle", "Square", "Sawtooth", "Pulse",
              "Harmonics", "SquareH", "SawtoothH"}
FastClasses == {"FastSine", "FastTriangle", "FastSquare", "FastSawtooth", "FastPulse"}

\* The function of the phase argument tt that a class yields, times Ticks.
Shape(o, tt, pw2) ==
    CASE o.class \in {"Sine", "FastSine"} -> SinT(tt)
      [] o.class \in {"Triangle", "FastTriangle"} -> TriangleShape(tt)
      [] o.class \in {"Square", "FastSquare"} -> SquareShape(tt)
      [] o.class \in {"Sawtooth", "FastSawtooth"} -> SawtoothShape(tt)
      [] o.class \in {"Pulse", "FastPulse"} -> PulseShape(tt, pw2)
      [] o.class \in {"Harmonics", "SquareH", "SawtoothH"} -> HarmonicSum(o, tt, o.harmonics, 1)

\* shape*amplitude + bias, and SawtoothH's bias*2.0 - y; over CDen
Level(o, sh) ==
    IF o.class = "SawtoothH"
    THEN 2 * o.bias * Ticks - (sh * o.amplitude + o.bias * Ticks)
    ELSE sh * o.amplitude + o.bias * Ticks

\* The locals of a generator before its first sample.  SawtoothH.__init__
\* passes phase+0.5 on.
OscStart(o) ==
    [t |-> 0,
     phase_correction |-> o.phase * (Ticks \div Grid)
                          + (IF o.class = "SawtoothH" THEN HalfTicks ELSE 0),
     freq_previous |-> o.frequency * Grid,
     value |-> o.startlevel,
     held |-> 0, left |-> 0]

\* What stops a generator before its first sample: FastSine's
\* self._samplerate/self._frequency, the other fast classes'
\* self._phase/freq, WhiteNoise's self._samplerate / self.frequency.
OscStartError(o) ==
    IF o.class \in FastClasses \cup {"WhiteNoise"} /\ o.frequency = 0
    THEN "ZeroDivisionError" ELSE "none"

\* freq = self.frequency*(1.0+next(self.fm)), times Grid; m is what the FM LFO
\* yields, times Grid.
FMFreq(o, m) == o.frequency * (Grid + m)
\* the phase correction left as it was
PhaseCorrectionKept(s, freq) == s.phase_correction
\* phase_correction += (freq_previous-freq)*t, in ticks
PhaseCorrection(s, freq) == s.phase_correction + (s.freq_previous - freq) * s.t * 4
\* The phase argument, in ticks: tt = t*freq+phase_correction (q in
\* Harmonics, the argument of sin in Sine).
PhaseArgument(s, freq) == s.t * freq * 4 + PhaseCorrection(s, freq)

\* One turn of the loop of the generator of an oscillator with FM, the FM LFO
\* yielding m and the pulse width being pw2: the value yielded, over CDen,
\* and the locals after it.
FMStep(o, s, m, pw2) ==
    LET freq == FMFreq(o, m)
    IN  [num |-> Level(o, Shape(o, PhaseArgument(s, freq), pw2)), den |-> CDen,
         next |-> [s EXCEPT !.t = s.t + 1,
                            !.phase_correction = PhaseCorrection(s, freq),
                            !.freq_previous = freq]]

\* One turn of the loop with the LFOs of o.
FMYield(o, s) ==
    FMStep(o, s, ModAt(o.fm, s.t),
           ClampedPulseWidth2(IF o.pwm = "none" THEN o.pulsewidth
                              ELSE ModAt(o.pwm, s.t)))

\* FastPulse.generator clamps what its PWM LFO yields, and not self._pulsewidth.
FastPulseWidth2(o, i) ==
    IF o.pwm = "none" THEN PulseWidth2(o.pulsewidth)
    ELSE ClampedPulseWidth2(ModAt(o.pwm, i))

\* One turn of the loop of a fast generator.  Its phase argument is t*freq
\* with t = phase/freq + i/samplerate, and FastSine's is
\* phase*2*pi + i*2*pi/(samplerate/frequency): phase + i*frequency/samplerate
\* cycles.
FastYield(o, s) ==
    LET tt == o.phase * (Ticks \div Grid) + s.t * o.frequency * Grid * 4
    IN  [num |-> Level(o, Shape(o, tt, FastPulseWidth2(o, s.t))), den |-> CDen,
         next |-> [s EXCEPT !.t = s.t + 1]]

\* Linear.generator: yield self.value, then, if self.increment,
\* self.value = min(self.max_value, max(self.min_value, self.value+self.increment)).
\* value and increment are multiples of 1/o.den; min_value is -1.0, max_value 1.0.
LinearYield(o, s) ==
    LET sum == s.value + o.increment
        clamped == IF sum > o.den THEN o.den
                   ELSE IF sum < 0 - o.den THEN 0 - o.den ELSE sum
    IN  [num |-> s.value, den |-> o.den,
         next |-> [s EXCEPT !.value = IF o.increment # 0 THEN clamped ELSE s.value]]

\* int(N / D) for any D but 0
PyIntDiv(N, D) == IF D > 0 THEN PyInt(N, D) ELSE PyInt(0 - N, 0 - D)

\* WhiteNoise.generator: cycles = int(self._samplerate / self.frequency)
Cycles(o) == PyIntDiv(SampleRate, o.frequency)
\* "yield from [value] * cycles" yields nothing when cycles is not positive,
\* and "while True" then never leaves the loop.
OscHangs(o, s) == o.class = "WhiteNoise" /\ s.left = 0 /\ Cycles(o) <= 0
\* random.uniform(-self.amplitude, self.amplitude): one of its ends or the middle
Draws == {0 - 1, 0, 1}
\* One value of WhiteNoise.generator: the value drawn last while it
\* repeats, else r drawn anew.
WhiteNoiseYield(o, s, r) ==
    IF s.left > 0
    THEN [num |-> s.held, den |-> CDen, next |-> [s EXCEPT !.left = s.left - 1]]
    ELSE LET value == r * o.amplitude * Ticks + o.bias * Ticks
         IN  [num |-> value, den |-> CDen,
              next |-> [s EXCEPT !.held = value, !.left = Cycles(o) - 1]]

\* next() of the generator of an oscillator
OscYield(o, s, r) ==
    CASE o.class \in FMClasses -> FMYield(o, s)
      [] o.class \in FastClasses -> FastYield(o, s)
      [] o.class = "Linear" -> LinearYield(o, s)
      [] o.class = "WhiteNoise" -> WhiteNoiseYield(o, s, r)

(***************************************************************************)
(* WaveSynth.                                                              *)
(*                                                                         *)
(* An integer sample is sign and magnitude, the magnitude in two limbs     *)
(* (hi * Limb + lo), as the samples of width 4 exceed what TLC's integers  *)
(* hold.                                                                   *)
(***************************************************************************)
Limb == Pow2(16)
\* 2 ** (self.samplewidth * 8 - 1) - 1
Scale(samplewidth) ==
    LET bits == samplewidth * 8 - 1
    IN  IF bits > 16 THEN [hi |-> Pow2(bits - 16) - 1, lo |-> Limb - 1]
        ELSE [hi |-> 0, lo |-> Pow2(bits) - 1]
\* no scaling: the factor of Linear, and of an oscillator built directly
ScaleOne == [hi |-> 0, lo |-> 1]

\* int(scale * num / den): truncation toward zero
Quantize(scale, num, den) ==
    LET m == Abs(num)
        a == m * scale.hi
        b == (a % den) * Limb + m * scale.lo
        hi == a \div den + (b \div den) \div Limb
        lo == (b \div den) % Limb
    IN  [neg |-> num < 0 /\ (hi > 0 \/ lo > 0), hi |-> hi, lo |-> lo]

Kinds == {"sine", "square", "square_h", "triangle", "sawtooth", "sawtooth_h",
          "pulse", "harmonics", "white_noise", "linear"}

\* The arguments of the calls.  A duration is in half samples (duration *
\* samplerate * 2), the other numbers are in the oscillators' units.
Frequencies == {0 - 1, 0, 1, SampleRate \div 2, SampleRate \div 2 + 1}
Amplitudes == {Grid \div 2, Grid, Grid + Grid \div 2}
Biases == {0, Grid, 2 * Grid}
Phases == {0, 1}
Pulsewidths == {0, 1, Grid, Grid + 1}
Durations == {0 - 3, 0, 3, 2 * MaxSamples + 1}
Levels == {1, Grid + Grid \div 2, 3 * Grid}
CallFMs == {"none", "zero", "wobble"}

OscCalls ==
    [kind : Kinds \ {"linear"}, frequency : Frequencies, duration : Durations,
     amplitude : Amplitudes, phase : Phases, bias : Biases,
     pulsewidth : Pulsewidths, fm : CallFMs, pwm : {"none"},
     start_amp : {0}, finish_amp : {0}]
LinearCalls ==
    [kind : {"linear"}, frequency : {0}, duration : Durations,
     amplitude : {0}, phase : {0}, bias : {0},
     pulsewidth : {0}, fm : {"none"}, pwm : {"none"},
     start_amp : Levels, finish_amp : Levels \cup {0 - Grid}]
\* Only pulse takes a pulse width, and white_noise takes no phase and no LFO.
Calls ==
    {c \in OscCalls :
        /\ c.kind # "pulse" => c.pulsewidth = 0
        /\ c.kind = "white_noise" => c.phase = 0 /\ c.fm = "none"}
    \cup LinearCalls

\* int(duration*self.samplerate)
NumSamples(c) == PyInt(c.duration, 2)

\* __check_and_get_scale without its first assertion
AmplitudeAndBiasOnly(c) ==
    /\ 0 <= c.amplitude /\ c.amplitude <= Grid
    /\ 0 - Grid <= c.bias /\ c.bias <= Grid
\* __check_and_get_scale's three assertions
Checked(c) ==
    /\ 2 * c.frequency <= SampleRate
    /\ 0 <= c.amplitude /\ c.amplitude <= Grid
    /\ 0 - Grid <= c.bias /\ c.bias <= Grid
\* no assertion on the pulse width
PulsewidthUnchecked(c) == TRUE
\* __pulse's "assert 0 <= pulsewidth <= 1", before __check_and_get_scale
PulsewidthChecked(c) == c.kind = "pulse" => 0 <= c.pulsewidth /\ c.pulsewidth <= Grid

\* "if fm_lfo:" picks the class with FM, else the fast one; the kinds made
\* of harmonics have no fast class.
ClassOf(c) ==
    CASE c.kind = "sine" -> IF c.fm # "none" THEN "Sine" ELSE "FastSine"
      [] c.kind = "square" -> IF c.fm # "none" THEN "Square" ELSE "FastSquare"
      [] c.kind = "triangle" -> IF c.fm # "none" THEN "Triangle" ELSE "FastTriangle"
      [] c.kind = "sawtooth" -> IF c.fm # "none" THEN "Sawtooth" ELSE "FastSawtooth"
      [] c.kind = "pulse" -> IF c.fm # "none" THEN "Pulse" ELSE "FastPulse"
      [] c.kind = "square_h" -> "SquareH"
      [] c.kind = "sawtooth_h" -> "SawtoothH"
      [] c.kind = "harmonics" -> "Harmonics"
      [] c.kind = "white_noise" -> "WhiteNoise"
      [] c.kind = "linear" -> "Linear"

HarmonicsOf(c) ==
    CASE c.kind = "square_h" -> SquareHarmonics
      [] c.kind = "sawtooth_h" -> SawtoothHarmonics
      [] OTHER -> CheckHarmonics

\* The oscillator of a periodic kind: amplitude*scale and bias*scale are its
\* amplitude and bias.
PeriodicOsc(samplewidth, c) ==
    [class |-> ClassOf(c), frequency |-> c.frequency, amplitude |-> c.amplitude,
     phase |-> c.phase, bias |-> c.bias, pulsewidth |-> c.pulsewidth,
     fm |-> c.fm, pwm |-> c.pwm, harmonics |-> HarmonicsOf(c),
     startlevel |-> 0, increment |-> 0, den |-> CDen,
     scale |-> Scale(samplewidth)]

\* __linear: Linear(start_amp, (finish_amp - start_amp) / (num_samples - 1)),
\* levels in multiples of 1 / (Grid * |num_samples - 1|); nothing is checked
\* and nothing is scaled.
LinearOsc(c) ==
    LET n == NumSamples(c) - 1
    IN  [class |-> "Linear", frequency |-> 0, amplitude |-> 0,
         phase |-> 0, bias |-> 0, pulsewidth |-> 0,
         fm |-> "none", pwm |-> "none", harmonics |-> <<>>,
         startlevel |-> c.start_amp * Abs(n),
         increment |-> IF n > 0 THEN c.finish_amp - c.start_amp
                       ELSE c.start_amp - c.finish_amp,
         den |-> Grid * Abs(n), scale |-> ScaleOne]

\* The private __sine ... __linear: the oscillator, or the error raised.
Wave(samplewidth, c) ==
    IF c.kind = "linear"
    THEN IF NumSamples(c) - 1 = 0
         THEN [err |-> "ZeroDivisionError", osc |-> LinearOsc(c)]
         ELSE [err |-> "none", osc |-> LinearOsc(c)]
    ELSE IF PulsewidthChecked(c) /\ Checked(c)
         THEN [err |-> "none", osc |-> PeriodicOsc(samplewidth, c)]
         ELSE [err |-> "AssertionError", osc |-> PeriodicOsc(samplewidth, c)]

\* int(next(wave))
IntNext(o, s, r) ==
    LET y == OscYield(o, s, r)
    IN  [sample |-> Quantize(o.scale, y.num, y.den), next |-> y.next]

\* The list __render_sample hands to Sample.get_array: samples k to n of the
\* wave, d[k] being what random.uniform returns at sample k if it is called.
RECURSIVE RenderFrom(_, _, _, _, _)
RenderFrom(o, s, d, k, n) ==
    IF k > n THEN [status |-> "done", samples |-> <<>>]
    ELSE IF OscHangs(o, s) THEN [status |-> "hang", samples |-> <<>>]
    ELSE LET y == IntNext(o, s, d[k])
             rest == RenderFrom(o, y.next, d, k + 1, n)
         IN  IF rest.status = "done"
             THEN [status |-> "done", samples |-> <<y.sample>> \o rest.samples]
             ELSE rest

\* The count of __render_sample's range(): a sample too many
RenderCountUp(c) == NumSamples(c) + 1
\* The count of __render_sample's range()
RenderCount(c) == NumSamples(c)

\* __render_sample: [int(next(wave)) for _ in range(int(duration*self.samplerate))]
RenderSample(o, n, d) ==
    IF n >= 1 /\ OscStartError(o) # "none"
    THEN [status |-> OscStartError(o), samples |-> <<>>]
    ELSE RenderFrom(o, OscStart(o), d, 1, n)

\* A bounded operation X(...): the wave, then __render_sample.
Render(samplewidth, c, d) ==
    LET wave == Wave(samplewidth, c)
    IN  IF wave.err # "none" THEN [status |-> wave.err, samples |-> <<>>]
        ELSE RenderSample(wave.osc, RenderCount(c), d)

\* What random.uniform may return during a render.
DrawLists(c) ==
    IF c.kind = "white_noise" THEN [1 .. MaxSamples + 1 -> Draws]
    ELSE {[k \in 1 .. MaxSamples + 1 |-> 0]}

NoLocals == [t |-> 0, phase_correction |-> 0, freq_previous |-> 0,
             value |-> 0, held |-> 0, left |-> 0]
NoGen == [pc |-> "none", err |-> "none", pulls |-> 0, out |-> <<>>, s |-> NoLocals]
NoRender == [status |-> "none", samples |-> <<>>]
SampleWidths == {2, 3, 4}

\* WaveSynth.__init__: "if samplewidth not in (2, 4): raise ValueError"
WaveSynthNew ==
    /\ ws.pc = "none"
    /\ \E samplewidth \in SampleWidths :
          ws' = IF samplewidth \in {2, 4}
                THEN [pc |-> "made", samplewidth |-> samplewidth]
                ELSE [pc |-> "ValueError", samplewidth |-> 0]
    /\ UNCHANGED <<call, rend, gen, envVars, delayVars, oscVars, filterVars>>

\* A bounded operation, sine(...) to linear(...), from the call to its
\* return or its failure.
RenderCall ==
    /\ ws.pc = "made"
    /\ rend.status = "none"
    /\ \E d \in DrawLists(call) : rend' = Render(ws.samplewidth, call, d)
    /\ UNCHANGED <<ws, call, gen, envVars, delayVars, oscVars, filterVars>>

\* A streaming operation, sine_gen(...) to linear_gen(...): the call of a
\* generator function runs nothing of its body.
GenCall ==
    /\ ws.pc = "made"
    /\ gen.pc = "none"
    /\ gen' = [gen EXCEPT !.pc = "created"]
    /\ UNCHANGED <<ws, call, rend, envVars, delayVars, oscVars, filterVars>>

\* The first next() of the stream: the body from its start, the private
\* __sine ... __linear included, to the first yield.
GenFirst(samplewidth, c, g, r) ==
    LET wave == Wave(samplewidth, c)
        o == wave.osc
    IN  IF wave.err # "none" THEN [g EXCEPT !.pc = "failed", !.err = wave.err]
        ELSE IF c.kind = "linear" /\ NumSamples(c) <= 0 THEN [g EXCEPT !.pc = "ended"]
        ELSE IF OscStartError(o) # "none"
             THEN [g EXCEPT !.pc = "failed", !.err = OscStartError(o)]
        ELSE IF OscHangs(o, OscStart(o)) THEN [g EXCEPT !.pc = "hang"]
        ELSE LET y == IntNext(o, OscStart(o), r)
             IN  [g EXCEPT !.pc = "running", !.out = <<y.sample>>, !.s = y.next]

\* A later next(): "while True: yield int(next(wave))", and linear_gen's
\* "for _ in range(int(duration*self.samplerate))".
GenLater(samplewidth, c, g, r) ==
    LET o == Wave(samplewidth, c).osc
    IN  IF c.kind = "linear" /\ Len(g.out) >= NumSamples(c) THEN [g EXCEPT !.pc = "ended"]
        ELSE LET y == IntNext(o, g.s, r)
             IN  [g EXCEPT !.out = Append(g.out, y.sample), !.s = y.next]

\* next() of the stream
GenPull ==
    /\ gen.pc \in {"created", "running"}
    /\ gen.pulls < MaxGenPulls
    /\ \E r \in (IF call.kind = "white_noise" THEN Draws ELSE {0}) :
          LET g == IF gen.pc = "created"
                   THEN GenFirst(ws.samplewidth, call, gen, r)
                   ELSE GenLater(ws.samplewidth, call, gen, r)
          IN  gen' = [g EXCEPT !.pulls = gen.pulls + 1]
    /\ UNCHANGED <<ws, call, rend, envVars, delayVars, oscVars, filterVars>>

(***************************************************************************)
(* A fast oscillator and the one with FM, built directly with the same     *)
(* arguments and no LFO, pulled side by side.                              *)
(***************************************************************************)
OscShapes == {"Sine", "Triangle", "Square", "Sawtooth", "Pulse"}
OscFrequencies == {0 - 1, 0, 1, 3}
OscArgs ==
    {a \in [shape : OscShapes, frequency : OscFrequencies,
            amplitude : {Grid \div 2, Grid}, phase : Phases, bias : {0, 1},
            pulsewidth : {0, 1, Grid \div 2, Grid}] :
        a.shape # "Pulse" => a.pulsewidth = 0}

\* Sine(frequency, amplitude, phase, bias) ... or FastSine(...) ...
DirectOsc(class, a) ==
    [class |-> class, frequency |-> a.frequency, amplitude |-> a.amplitude,
     phase |-> a.phase, bias |-> a.bias, pulsewidth |-> a.pulsewidth,
     fm |-> "none", pwm |-> "none", harmonics |-> <<>>,
     startlevel |-> 0, increment |-> 0, den |-> CDen, scale |-> ScaleOne]
FastOf(a) == DirectOsc("Fast" \o a.shape, a)
FMOf(a) == DirectOsc(a.shape, a)

NoOsc == [pc |-> "new", err |-> "none", out |-> <<>>, s |-> NoLocals]

\* next() of the generator of oscillator o, whose record is g
OscNext(o, g) ==
    IF g.pc = "new" /\ OscStartError(o) # "none"
    THEN [g EXCEPT !.pc = "failed", !.err = OscStartError(o)]
    ELSE LET y == OscYield(o, IF g.pc = "new" THEN OscStart(o) ELSE g.s, 0)
         IN  [g EXCEPT !.pc = "running", !.out = Append(g.out, y.num), !.s = y.next]

FastPull ==
    /\ fast.pc \in {"new", "running"}
    /\ Len(fast.out) < MaxGenPulls
    /\ fast' = OscNext(FastOf(op), fast)
    /\ UNCHANGED <<op, full, envVars, delayVars, synthVars, filterVars>>

FMPull ==
    /\ full.pc \in {"new", "running"}
    /\ Len(full.out) < MaxGenPulls
    /\ full' = OscNext(FMOf(op), full)
    /\ UNCHANGED <<op, fast, envVars, delayVars, synthVars, filterVars>>

(***************************************************************************)
(* EchoFilter.                                                             *)
(*                                                                         *)
(* The source is an oscillator: it does not end.  after and delay are      *)
(* floats, as the counts int(...) of them decide when a branch starts.     *)
(* decay is the fraction num / den, and the powers of it and the sum of    *)
(* the branches are exact: a value yielded while the echos are mixed is a  *)
(* whole number over den to the power amount.                              *)
(***************************************************************************)
\* sample i of the source (i from 0)
EchoSrc(i) == (i % 7) + 1

EchoRates == {4, 6}
EchoSeconds == {0, FUnit \div 4, (3 * FUnit) \div 8, FUnit \div 2}
EchoAmounts == {0, 1, 2, 10, 50}
EchoDecays == {[num |-> 0, den |-> 1], [num |-> 1, den |-> 1000], [num |-> 1, den |-> 10],
               [num |-> 1, den |-> 2], [num |-> 1, den |-> 1], [num |-> 2, den |-> 1]}
\* (A decay below 1 caps the amount; without the cap, 50 echos are more
\* than the model sums, and 2 to the power 50 is beyond its integers.)
EchoParams ==
    {p \in [samplerate : EchoRates, after : EchoSeconds, amount : EchoAmounts,
            delay : EchoSeconds, decay : EchoDecays] :
        p.decay.num >= p.decay.den => p.amount <= 10}

RECURSIVE Power(_, _)
Power(x, n) == IF n <= 0 THEN 1 ELSE x * Power(x, n - 1)

\* 0.000001, inverted
Million == 1000000
\* int(math.log(0.000001, decay)) for 0 < decay < 1: the largest n with
\* decay to the power n at least 0.000001.  (math.log returns a whole number
\* where a power is 0.000001 exactly: 6.0 for 0.1, 2.0 for 0.001.)
RECURSIVE LogMillionth(_, _)
LogMillionth(d, n) ==
    IF Power(d.num, n + 1) * Million >= Power(d.den, n + 1)
    THEN LogMillionth(d, n + 1) ELSE n

\* EchoFilter.__init__: "if decay < 1: amount = int(min(amount, math.log(0.000001, decay)))";
\* math.log raises ValueError for a decay of 0.
EchoAmount(p) ==
    IF p.decay.num >= p.decay.den THEN [err |-> "none", amount |-> p.amount]
    ELSE IF p.decay.num <= 0 THEN [err |-> "ValueError", amount |-> 0]
    ELSE LET cap == LogMillionth(p.decay, 0)
         IN  [err |-> "none", amount |-> IF p.amount <= cap THEN p.amount ELSE cap]

\* range(int(self._samplerate*self._after))
EchoAfter(p) == FInt(FMul(FOfInt(p.samplerate), p.after))

\* echo_delay of echo i (from 1): self._delay, then "echo_delay += self._delay"
RECURSIVE EchoDelay(_, _)
EchoDelay(p, i) == IF i <= 1 THEN p.delay ELSE FAdd(EchoDelay(p, i - 1), p.delay)

\* every echo delayed by self._delay, none by more
EchoZerosOnce(p, i) ==
    IF i = 0 THEN 0
    ELSE DelayCount([samplerate |-> p.samplerate, seconds |-> p.delay])
\* the delays of the echos doubled
EchoZerosTwice(p, i) ==
    IF i = 0 THEN 0
    ELSE 2 * DelayCount([samplerate |-> p.samplerate, seconds |-> EchoDelay(p, i)])
\* The zeros DelayFilter(echo, echo_delay) yields first.
EchoZeros(p, i) ==
    IF i = 0 THEN 0
    ELSE DelayCount([samplerate |-> p.samplerate, seconds |-> EchoDelay(p, i)])

\* What branch i (0 the source itself) yields for output j of the mix, over
\* den to the power m, when it has read r elements of its copy of the
\* source: 0.0 * amp while DelayFilter yields zeros, then the next element
\* times amp, amp being decay to the power i.
EchoBranch(p, m, a, i, j, r) ==
    IF j < EchoZeros(p, i) THEN 0
    ELSE EchoSrc(a + r) * Power(p.decay.num, i) * Power(p.decay.den, m - i)

\* sum([next(echo) for echo in echos]), from branch i on
RECURSIVE EchoSum(_, _, _, _, _, _)
EchoSum(p, m, a, i, j, reads) ==
    IF i > m THEN 0
    ELSE EchoBranch(p, m, a, i, j, reads[i + 1]) + EchoSum(p, m, a, i + 1, j, reads)

NoEcho == [pc |-> "none", amount |-> 0, k |-> 0, out |-> <<>>, reads |-> <<>>]

\* EchoFilter(source, after, amount, delay, decay)
EchoNew ==
    /\ ecg.pc = "none"
    /\ LET made == EchoAmount(ecp)
       IN  ecg' = IF made.err # "none" THEN [ecg EXCEPT !.pc = made.err]
                  ELSE [pc |-> "built", amount |-> made.amount, k |-> 0, out |-> <<>>,
                        reads |-> [i \in 1 .. made.amount + 1 |-> 0]]
    /\ UNCHANGED <<ecp, envVars, delayVars, synthVars, oscVars, mixVars, pwmVars, fmVars, clipVars>>

\* next() of EchoFilter.generator: an element of the source while the
\* echos have not started, then the sum of the branches, each of which
\* reads its own copy (itertools.tee) of the rest of the source.
EchoPull ==
    /\ ecg.pc = "built"
    /\ Len(ecg.out) < MaxEchoPulls
    /\ LET a == EchoAfter(ecp)
           n == Len(ecg.out)
           j == n - a
       IN  ecg' = IF n < a
                  THEN [ecg EXCEPT !.out = Append(ecg.out, EchoSrc(n)), !.k = ecg.k + 1]
                  ELSE [ecg EXCEPT
                          !.out = Append(ecg.out, EchoSum(ecp, ecg.amount, a, 0, j, ecg.reads)),
                          !.reads = [i \in 1 .. ecg.amount + 1 |->
                                        IF j < EchoZeros(ecp, i - 1) THEN ecg.reads[i]
                                        ELSE ecg.reads[i] + 1],
                          !.k = ecg.k + 1]
    /\ UNCHANGED <<ecp, envVars, delayVars, synthVars, oscVars, mixVars, pwmVars, fmVars, clipVars>>

(***************************************************************************)
(* MixingFilter and AmpMudulationFilter.                                   *)
(*                                                                         *)
(* The sources are iterators of lens[s] elements each, source s yielding   *)
(* MixSrc(s, 0), MixSrc(s, 1), ...; reads[s] is the number of elements     *)
(* taken from source s.  For AmpMudulationFilter source 1 is the source    *)
(* and source 2 the modulator, an iterator.  A next() of a source that has *)
(* ended raises StopIteration: inside the generator of MixingFilter, and   *)
(* at next(self.modulator), it leaves the generator as a RuntimeError; at  *)
(* the for statement over the source it ends the loop.                     *)
(***************************************************************************)
MixSrc(s, i) == ((3 * s + 2 * i) % 5) + 1

MixFilters == {"Mixing", "AmpModulation"}
MixLens == UNION {[1 .. n -> 0 .. MaxMixLen] : n \in {2, 3}}
MixParams ==
    {p \in [filter : MixFilters, lens : MixLens] :
        p.filter = "AmpModulation" => Len(p.lens) = 2}

\* The first source, from s on, whose next() raises StopIteration; 0 if
\* every source has an element left.
RECURSIVE MixFirstEnded(_, _, _)
MixFirstEnded(lens, reads, s) ==
    IF s > Len(lens) THEN 0
    ELSE IF reads[s] >= lens[s] THEN s
    ELSE MixFirstEnded(lens, reads, s + 1)

\* sum([next(src) for src in sources]), from source s on
RECURSIVE MixSum(_, _, _)
MixSum(lens, reads, s) ==
    IF s > Len(lens) THEN 0
    ELSE MixSrc(s, reads[s]) + MixSum(lens, reads, s + 1)

\* One next() of iter(MixingFilter(*sources)): the sources are advanced in
\* their order, and the first that has ended stops the list comprehension.
MixingPull ==
    /\ mxp.filter = "Mixing"
    /\ mxg.pc \in {"new", "running"}
    /\ Len(mxg.out) < MaxMixLen + 1
    /\ LET e == MixFirstEnded(mxp.lens, mxg.reads, 1)
       IN  mxg' =
             IF e = 0
             THEN [pc |-> "running",
                   reads |-> [s \in 1 .. Len(mxp.lens) |-> mxg.reads[s] + 1],
                   out |-> Append(mxg.out, MixSum(mxp.lens, mxg.reads, 1))]
             ELSE [mxg EXCEPT !.pc = "RuntimeError",
                              !.reads = [s \in 1 .. Len(mxp.lens) |->
                                           IF s < e THEN mxg.reads[s] + 1 ELSE mxg.reads[s]]]
    /\ UNCHANGED <<mxp, envVars, delayVars, synthVars, oscVars, echoVars, pwmVars, fmVars, clipVars>>

\* One next() of iter(AmpMudulationFilter(source, modulator)).
AmpModulationPull ==
    /\ mxp.filter = "AmpModulation"
    /\ mxg.pc \in {"new", "running"}
    /\ Len(mxg.out) < MaxMixLen + 1
    /\ mxg' =
         IF mxg.reads[1] >= mxp.lens[1] THEN [mxg EXCEPT !.pc = "ended"]
         ELSE IF mxg.reads[2] >= mxp.lens[2]
              THEN [mxg EXCEPT !.pc = "RuntimeError", !.reads[1] = mxg.reads[1] + 1]
              ELSE [pc |-> "running",
                    reads |-> <<mxg.reads[1] + 1, mxg.reads[2] + 1>>,
                    out |-> Append(mxg.out, MixSrc(1, mxg.reads[1]) * MixSrc(2, mxg.reads[2]))]
    /\ UNCHANGED <<mxp, envVars, delayVars, synthVars, oscVars, echoVars, pwmVars, fmVars, clipVars>>

(***************************************************************************)
(* Pulse and FastPulse with a PWM LFO, built directly.                     *)
(*                                                                         *)
(* The time t is the float the generators accumulate (t += increment), so  *)
(* it is modelled at MantBits bits.  frequency, amplitude and bias are     *)
(* small whole numbers, phase and the pulse widths are floats; there is no *)
(* FM LFO, and the PWM LFO does not end.                                   *)
(***************************************************************************)
PwmClasses == {"Pulse", "FastPulse"}
PwmRates == {4, 7}
PwmFrequencies == {1, 2}
PwmAmplitudes == {1, 2}
PwmBiases == {0, 1}
PwmPhases == {0, FUnit \div 4}
PwmPulsewidths == {FUnit \div 8, FUnit \div 2}
PwmLFOs == {"half", "low", "high", "sweep"}
PwmParams ==
    [class : PwmClasses, samplerate : PwmRates, frequency : PwmFrequencies,
     amplitude : PwmAmplitudes, phase : PwmPhases, bias : PwmBiases,
     pulsewidth : PwmPulsewidths, pwm : PwmLFOs]

\* Value n (from 0) of the PWM LFO.
PwmAt(m, n) ==
    CASE m = "half" -> FUnit \div 2
      [] m = "low" -> 0 - (FUnit \div 2)
      [] m = "high" -> FUnit + (FUnit \div 2)
      [] OTHER -> ((n % 5) * FUnit) \div 4

\* sys.float_info.epsilon: the gap between 1.0 and the next float
Epsilon == FUnit \div Pow2(MantBits - 1)

\* "if pw <= 0.0: pw = epsilon; elif pw >= 1.0: pw = 1.0-epsilon"
PwmClamp(pw) ==
    IF pw <= 0 THEN Epsilon
    ELSE IF pw >= FUnit THEN FSub(FUnit, Epsilon)
    ELSE pw

\* increment = 1.0/self._samplerate
PwmIncrement(p) == FDiv(FUnit, FOfInt(p.samplerate))

\* t before the first sample: 0.0 in Pulse, self._phase/freq in FastPulse
PwmStart(p) ==
    IF p.class = "Pulse" THEN 0 ELSE FDiv(p.phase, FOfInt(p.frequency))

\* The argument of "% 1.0": t*freq+phase_correction in Pulse, where without
\* FM freq is the frequency and phase_correction the phase; t*freq in
\* FastPulse.
PwmTT(p, t) ==
    IF p.class = "Pulse" THEN FAdd(FMul(t, FOfInt(p.frequency)), p.phase)
    ELSE FMul(t, FOfInt(p.frequency))

\* One next() of the generator: a sample, and t += increment.
PwmPull ==
    /\ pwg.pc \in {"new", "running"}
    /\ pwg.n < MaxPwmPulls
    /\ LET t == IF pwg.pc = "new" THEN PwmStart(pwp) ELSE pwg.t
           pw == PwmClamp(PwmAt(pwp.pwm, pwg.n))
           tt == PwmTT(pwp, t)
           high == tt % FUnit < pw
       IN  pwg' = [pc |-> "running",
                   t |-> FAdd(t, PwmIncrement(pwp)),
                   n |-> pwg.n + 1,
                   out |-> Append(pwg.out,
                              [pw |-> pw, high |-> high,
                               val |-> (IF high THEN pwp.amplitude ELSE 0 - pwp.amplitude)
                                          + pwp.bias])]
    /\ UNCHANGED <<pwp, envVars, delayVars, synthVars, oscVars, echoVars, mixVars, fmVars, clipVars>>

(***************************************************************************)
(* An oscillator with an FM LFO, built directly.  The LFO is any iterator: *)
(* each value it yields is one of FMValues, a multiple of 1/Grid.  tts and *)
(* freqs record the phase argument and the frequency of every sample.      *)
(***************************************************************************)
FMLfoClasses == {"Sine", "Triangle", "Square", "Sawtooth", "Pulse", "Harmonics"}
FMValues == {0 - Grid, 0 - 1, 0, 2}
FMParams == [class : FMLfoClasses, frequency : {1, 2}, phase : Phases]

\* Sine(frequency, phase=phase, fm_lfo=lfo) ... Harmonics(frequency, harmonics, ...)
FMLfoOsc(p) ==
    [class |-> p.class, frequency |-> p.frequency, amplitude |-> Grid,
     phase |-> p.phase, bias |-> 0, pulsewidth |-> Grid \div 2,
     fm |-> "lfo", pwm |-> "none",
     harmonics |-> IF p.class = "Harmonics" THEN CheckHarmonics ELSE <<>>,
     startlevel |-> 0, increment |-> 0, den |-> CDen, scale |-> ScaleOne]

\* One next() of the generator, the FM LFO yielding m.
FMLfoPull ==
    /\ Len(fmg.out) < MaxFMPulls
    /\ \E m \in FMValues :
          LET o == FMLfoOsc(fmp)
              s == IF fmg.out = <<>> THEN OscStart(o) ELSE fmg.s
              y == FMStep(o, s, m, ClampedPulseWidth2(o.pulsewidth))
          IN  fmg' = [s |-> y.next,
                      tts |-> Append(fmg.tts, PhaseArgument(s, FMFreq(o, m))),
                      freqs |-> Append(fmg.freqs, FMFreq(o, m)),
                      out |-> Append(fmg.out, y.num)]
    /\ UNCHANGED <<fmp, envVars, delayVars, synthVars, oscVars, echoVars, mixVars, pwmVars, clipVars>>

(***************************************************************************)
(* ClipFilter.                                                             *)
(*                                                                         *)
(* Samples and bounds are whole numbers, in a unit in which the smallest   *)
(* positive float, sys.float_info.min, is 1: a sample is 0 or at least 2   *)
(* away from 0.  A bound is given with its value, or not given when the   *)
(* argument is left out.  The source yields any of ClipSamples, for ever.  *)
(***************************************************************************)
FloatMin == 1
FloatMax == 1000
ClipSamples == {0 - 6, 0 - 2, 0, 2, 4, 6}
NoBound == [given |-> FALSE, value |-> 0]
ClipBounds == {NoBound} \cup {[given |-> TRUE, value |-> b] : b \in {0 - 4, 0, 4}}
ClipParams == [minimum : ClipBounds, maximum : ClipBounds]

\* ClipFilter.__init__: minimum=sys.float_info.min, maximum=sys.float_info.max
ClipLow(p) == IF p.minimum.given THEN p.minimum.value ELSE FloatMin
ClipHigh(p) == IF p.maximum.given THEN p.maximum.value ELSE FloatMax

Min(x, y) == IF x <= y THEN x ELSE y
\* max(min(v, self.max), self.min)
Clip(p, v) == Max(Min(v, ClipHigh(p)), ClipLow(p))

\* One next() of the generator, the source yielding v.
ClipPull ==
    /\ Len(clg) < MaxClipPulls
    /\ \E v \in ClipSamples : clg' = Append(clg, [v |-> v, y |-> Clip(clp, v)])
    /\ UNCHANGED <<clp, envVars, delayVars, synthVars, oscVars, echoVars, mixVars, pwmVars, fmVars>>

(***************************************************************************)
(* Specifications: one per component, the others idle.                     *)
(***************************************************************************)
EnvIdle == /\ ep = [samplerate |-> 3, attack |-> 0, decay |-> 0, sustain |-> 0,
                    sustain_level |-> 0, release |-> 0,
                    stop_at_end |-> TRUE, cycle |-> FALSE]
           /\ est = EnvNew
           /\ eout = <<>>
DelayIdle == /\ dp = [samplerate |-> 4, seconds |-> 0]
             /\ dst = DelayNew
             /\ dout = <<>>
SynthIdle == /\ ws = [pc |-> "none", samplewidth |-> 0]
             /\ call = CHOOSE c \in LinearCalls : TRUE
             /\ rend = NoRender
             /\ gen = NoGen
OscIdle == /\ op = CHOOSE a \in OscArgs : TRUE
           /\ fast = NoOsc
           /\ full = NoOsc
EchoIdle == /\ ecp = [samplerate |-> 4, after |-> 0, amount |-> 0, delay |-> 0,
                      decay |-> [num |-> 1, den |-> 1]]
            /\ ecg = NoEcho
MixIdle == /\ mxp = [filter |-> "Mixing", lens |-> <<0, 0>>]
           /\ mxg = [pc |-> "new", reads |-> <<0, 0>>, out |-> <<>>]
PwmIdle == /\ pwp = [class |-> "Pulse", samplerate |-> 4, frequency |-> 1, amplitude |-> 0,
                     phase |-> 0, bias |-> 0, pulsewidth |-> 0, pwm |-> "half"]
           /\ pwg = [pc |-> "new", t |-> 0, n |-> 0, out |-> <<>>]
FMIdle == /\ fmp = [class |-> "Sine", frequency |-> 1, phase |-> 0]
          /\ fmg = [s |-> NoLocals, tts |-> <<>>, freqs |-> <<>>, out |-> <<>>]
ClipIdle == /\ clp = [minimum |-> NoBound, maximum |-> NoBound]
            /\ clg = <<>>
FiltersIdle == EchoIdle /\ MixIdle /\ PwmIdle /\ FMIdle /\ ClipIdle

EnvInit == /\ ep \in EnvParams
           /\ est = EnvNew
           /\ eout = <<>>
           /\ DelayIdle /\ SynthIdle /\ OscIdle /\ FiltersIdle
EnvNext == EnvPull
EnvSpec == EnvInit /\ [][EnvNext]_vars

DelayInit == /\ dp \in DelayParams
             /\ dst = DelayNew
             /\ dout = <<>>
             /\ EnvIdle /\ SynthIdle /\ OscIdle /\ FiltersIdle
DelayNext == DelayPull
DelaySpec == DelayInit /\ [][DelayNext]_vars

SynthInit == /\ ws = [pc |-> "none", samplewidth |-> 0]
             /\ call \in Calls
             /\ rend = NoRender
             /\ gen = NoGen
             /\ EnvIdle /\ DelayIdle /\ OscIdle /\ FiltersIdle
SynthNext == WaveSynthNew \/ RenderCall \/ GenCall \/ GenPull
SynthSpec == SynthInit /\ [][SynthNext]_vars

OscInit == /\ op \in OscArgs
           /\ fast = NoOsc
           /\ full = NoOsc
           /\ EnvIdle /\ DelayIdle /\ SynthIdle /\ FiltersIdle
OscPulls == FastPull \/ FMPull
OscSpec == OscInit /\ [][OscPulls]_vars

EchoInit == /\ ecp \in EchoParams
            /\ ecg = NoEcho
            /\ EnvIdle /\ DelayIdle /\ SynthIdle /\ OscIdle
            /\ MixIdle /\ PwmIdle /\ FMIdle /\ ClipIdle
EchoNext == EchoNew \/ EchoPull
EchoSpec == EchoInit /\ [][EchoNext]_vars

MixInit == /\ mxp \in MixParams
           /\ mxg = [pc |-> "new", reads |-> [s \in 1 .. Len(mxp.lens) |-> 0], out |-> <<>>]
           /\ EnvIdle /\ DelayIdle /\ SynthIdle /\ OscIdle
           /\ EchoIdle /\ PwmIdle /\ FMIdle /\ ClipIdle
MixNext == MixingPull \/ AmpModulationPull
MixSpec == MixInit /\ [][MixNext]_vars

PwmInit == /\ pwp \in PwmParams
           /\ pwg = [pc |-> "new", t |-> 0, n |-> 0, out |-> <<>>]
           /\ EnvIdle /\ DelayIdle /\ SynthIdle /\ OscIdle
           /\ EchoIdle /\ MixIdle /\ FMIdle /\ ClipIdle
PwmNext == PwmPull
PwmSpec == PwmInit /\ [][PwmNext]_vars

FMInit == /\ fmp \in FMParams
          /\ fmg = [s |-> NoLocals, tts |-> <<>>, freqs |-> <<>>, out |-> <<>>]
          /\ EnvIdle /\ DelayIdle /\ SynthIdle /\ OscIdle
          /\ EchoIdle /\ MixIdle /\ PwmIdle /\ ClipIdle
FMNext == FMLfoPull
FMSpec == FMInit /\ [][FMNext]_vars

ClipInit == /\ clp \in ClipParams
            /\ clg = <<>>
            /\ EnvIdle /\ DelayIdle /\ SynthIdle /\ OscIdle
            /\ EchoIdle /\ MixIdle /\ PwmIdle /\ FMIdle
ClipNext == ClipPull
ClipSpec == ClipInit /\ [][ClipNext]_vars

(***************************************************************************)
(* Claims about EnvelopeFilter                                             *)
(***************************************************************************)
EnvFirstOfCycle(k) == k = 1 \/ eout[k].cycle # eout[k - 1].cycle

\* C6: for a non-cycling EnvelopeFilter, once the generator has left its
\* attack, decay, sustain and release segments, with stop_at_end false every
\* pull yields 0.0 and the stream never ends (every next() so far yielded a
\* sample, and after a 0.0 of the tail only 0.0 follows), and with stop_at_end
\* true the stream has ended, has yielded one sample per consumed source sample
\* and no 0.0 of the tail, however many more times it is pulled.
C6_AfterTheEnvelope ==
    ~ep.cycle =>
        /\ est.pc \in {"zeros", "ended"} =>
              /\ est.pc = (IF ep.stop_at_end THEN "ended" ELSE "zeros")
              /\ est.pc = "zeros" => eout[Len(eout)] = [seg |-> "zeros", src |-> 0 - 1, cycle |-> 1,
                                                        mult |-> 0, val |-> 0]
        /\ \A k \in 1 .. Len(eout) :
              /\ eout[k].seg = "zeros" => eout[k].val = 0 /\ ~ep.stop_at_end
              /\ k > 1 /\ eout[k - 1].seg = "zeros" => eout[k].seg = "zeros"
        /\ ~ep.stop_at_end => Len(eout) = est.pulls
        /\ ep.stop_at_end => Len(eout) = est.consumed

\* C6's case: the segments were emitted, and two pulls after them yielded 0.0.
C6_Witness ==
    /\ ~ep.cycle /\ ~ep.stop_at_end
    /\ ep.attack # 0 /\ ep.release # 0
    /\ Len(eout) >= 4
    /\ eout[1].seg = "attack"
    /\ eout[Len(eout) - 2].seg \in {"release", "tail"}
    /\ eout[Len(eout) - 1].seg = "zeros"
    /\ eout[Len(eout)].seg = "zeros"

IsUnitEnvelope ==
    /\ ep.attack = 0 /\ ep.decay = 0 /\ ep.sustain = FOfInt(1)
    /\ ep.sustain_level = FOfInt(1) /\ ep.release = 0
    /\ ~ep.stop_at_end /\ ~ep.cycle

\* C7: with attack=0, decay=0, sustain=1, sustain_level=1, release=0 and
\* stop_at_end=False, the first samplerate outputs are the source's first
\* samplerate samples, unchanged and one source sample per output, and every
\* output after them is 0.0.
C7_UnitEnvelopeIsOneSecond ==
    IsUnitEnvelope =>
        \A k \in 1 .. Len(eout) :
            IF k <= ep.samplerate
            THEN eout[k].val = Src(k - 1) /\ eout[k].src = k - 1
            ELSE eout[k].seg = "zeros" /\ eout[k].val = 0

\* C8: the multiplier applied to a source sample lies in [0, max(1, sustain_level)].
C8_MultiplierInRange ==
    \A k \in 1 .. Len(eout) :
        eout[k].seg \in EnvSegments =>
            /\ 0 <= eout[k].mult
            /\ eout[k].mult <= Max(FOfInt(1), ep.sustain_level)

EnvDuration(p, seg) ==
    CASE seg = "attack" -> p.attack
      [] seg = "decay" -> p.decay
      [] seg = "sustain" -> p.sustain
      [] seg \in {"release", "tail"} -> p.release
      [] OTHER -> 1

\* The largest per-sample ramp step of the segments with a non-zero duration.
EnvLargestStep(p) ==
    Max(IF p.attack # 0 THEN Abs(FMul(FDiv(FOfInt(1), p.attack), increment(p))) ELSE 0,
        Max(IF p.decay # 0
            THEN Abs(FMul(FDiv(FSub(p.sustain_level, FOfInt(1)), p.decay), increment(p))) ELSE 0,
            IF p.release # 0
            THEN Abs(FMul(FDiv(0 - p.sustain_level, p.release), increment(p))) ELSE 0))

C19_EveryPullCompletes == est.pc # "hang"

(***************************************************************************)
(* Claims about DelayFilter                                                *)
(***************************************************************************)
\* What a run of the DelayFilter looks like when it skips n source samples or
\* puts n samples of 0.0 in front of the source.
DelayShifts(n) ==
    /\ \A k \in 1 .. Len(dout) :
          IF dp.seconds >= 0
          THEN IF k <= n THEN dout[k] = [val |-> 0, src |-> 0 - 1]
               ELSE dout[k] = [val |-> Src(k - n - 1), src |-> k - n - 1]
          ELSE dout[k] = [val |-> Src(n + k - 1), src |-> n + k - 1]
    /\ dst.pc = "ended" =>
          Len(dout) = (IF dp.seconds >= 0 THEN n + SrcLen ELSE SrcLen - n)
    /\ dst.pc = "failed" => dp.seconds < 0 /\ n > SrcLen /\ dout = <<>>

\* C10 as stated: the number of 0.0 samples, or of discarded source samples,
\* is round(|seconds| * samplerate).
C10_DelayRounds ==
    dst.pc # "failed" => DelayShifts(RoundHalfEven(dp.samplerate * Abs(dp.seconds), FUnit))

\* C10, amended: the number of 0.0 samples, or of discarded source samples, is
\* int(samplerate * |seconds|), the floating point product truncated toward
\* zero; the source samples that follow are in order and unchanged, and a
\* negative delay longer than the source fails at the first pull.
C10_DelayTruncates ==
    DelayShifts(FInt(FMul(FOfInt(dp.samplerate), Abs(dp.seconds))))

\* C10's case: seconds * samplerate is not whole, and the source has passed.
C10_Witness ==
    /\ dp.seconds > 0
    /\ (dp.samplerate * dp.seconds) % FUnit # 0
    /\ dp.samplerate * dp.seconds > FUnit
    /\ dst.pc = "ended"
    /\ Len(dout) > SrcLen

(***************************************************************************)
(* Claims about WaveSynth and the oscillators                              *)
(***************************************************************************)
\* The kinds C1 names: all but white_noise, whose samples are random.
RepeatableKinds == Kinds \ {"white_noise"}

\* C1: for every kind of waveform but the random one, and a duration that
\* is not negative, the list a bounded operation renders holds exactly
\* int(duration*samplerate) integers, and its k-th integer is the k-th
\* integer the streaming operation yields when called with the same
\* arguments (on the same WaveSynth), FM or not, linear included; so the
\* stream does not stop before it has yielded them.
C1_RenderEqualsStream ==
    (call.kind \in RepeatableKinds /\ call.duration >= 0 /\ rend.status = "done") =>
        /\ Len(rend.samples) = NumSamples(call)
        /\ \A k \in 1 .. Len(rend.samples) :
              k <= Len(gen.out) => gen.out[k] = rend.samples[k]
        /\ gen.pc \in {"failed", "ended", "hang"} => Len(gen.out) >= Len(rend.samples)
\* A sawtooth under a changing FM, rendered whole and streamed as far.
C1_Witness ==
    /\ call.kind = "sawtooth" /\ call.fm = "wobble"
    /\ rend.status = "done" /\ Len(rend.samples) = MaxSamples
    /\ Len(gen.out) >= MaxSamples
    /\ rend.samples[1] # rend.samples[2]

\* C2: a fast oscillator yields at every index the value the oscillator
\* with FM yields when both are built with the same arguments and no LFO,
\* for sine, triangle, square, sawtooth and pulse, the pulse widths 0 and 1
\* included.
C2_FastEqualsFM ==
    \A k \in 1 .. Len(fast.out) : k <= Len(full.out) => fast.out[k] = full.out[k]

\* Arguments that are out of range: a frequency above samplerate/2, an
\* amplitude outside [0, 1], a bias outside [-1, 1].
OutOfRange(c) ==
    \/ 2 * c.frequency > SampleRate
    \/ c.amplitude < 0 \/ c.amplitude > Grid
    \/ c.bias < 0 - Grid \/ c.bias > Grid
\* The same for linear, whose only levels are start_amp and finish_amp.
LevelsOutOfRange(c) ==
    \/ c.start_amp < 0 \/ c.start_amp > Grid
    \/ c.finish_amp < 0 \/ c.finish_amp > Grid
NoSample == rend.samples = <<>> /\ gen.out = <<>>

\* C3 as it is stated: every operation of every kind, linear included,
\* fails with an AssertionError and yields no sample when its arguments
\* are out of range.
C3_EveryKindChecks ==
    (IF call.kind = "linear" THEN LevelsOutOfRange(call) ELSE OutOfRange(call)) =>
        /\ rend.status \in {"none", "AssertionError"}
        /\ gen.pc \in {"none", "created", "failed"}
        /\ NoSample
\* C3: every operation of every kind but linear, bounded or streaming, fails
\* with an AssertionError and yields no sample when the frequency is above
\* samplerate/2, the amplitude outside [0, 1] or the bias outside [-1, 1]:
\* the bounded one at its call, the streaming one at its first next().
C3_PeriodicKindsCheck ==
    (call.kind # "linear" /\ OutOfRange(call)) =>
        /\ rend.status \in {"none", "AssertionError"}
        /\ gen.pc \in {"none", "created", "failed"}
        /\ gen.pc = "failed" => gen.err = "AssertionError"
        /\ NoSample
\* A frequency above Nyquist alone has failed both operations of square_h.
C3_Witness ==
    /\ call.kind = "square_h" /\ 2 * call.frequency > SampleRate
    /\ call.amplitude <= Grid /\ call.bias <= Grid
    /\ rend.status = "AssertionError"
    /\ gen.pc = "failed" /\ gen.err = "AssertionError"

\* Arguments an assertion rejects.
Rejected(c) ==
    /\ c.kind # "linear"
    /\ OutOfRange(c) \/ (c.kind = "pulse" /\ (c.pulsewidth < 0 \/ c.pulsewidth > Grid))

\* C4 as it is stated: a streaming operation called with arguments that are
\* rejected fails at that call, not at a later next().
C4_StreamFailsAtTheCall ==
    Rejected(call) => gen.pc # "created" /\ (gen.pc = "failed" => gen.pulls = 0)
\* C4: a failure for the arguments comes before any sample.  A WaveSynth of
\* an unsupported width is never made, so no operation of it runs; a bounded
\* operation fails at its call; a streaming operation returns its generator
\* whatever the arguments, and the generator fails at its first next(),
\* having yielded nothing; and once a stream has yielded a sample no
\* AssertionError or ValueError follows.
C4_FailsBeforeTheFirstSample ==
    /\ ws.pc = "ValueError" => rend.status = "none" /\ gen.pc = "none"
    /\ rend.status = "AssertionError" => rend.samples = <<>>
    /\ gen.err \in {"AssertionError", "ValueError"} => gen.pulls = 1 /\ gen.out = <<>>
    /\ (Rejected(call) /\ gen.pulls >= 1) =>
          gen.pc = "failed" /\ gen.err = "AssertionError" /\ gen.pulls = 1
    /\ (Rejected(call) /\ rend.status # "none") => rend.status = "AssertionError"
\* A pulse of a pulse width above 1: the generator was returned, and its
\* first next() failed.
C4_Witness ==
    /\ call.kind = "pulse" /\ call.pulsewidth > Grid /\ ~ OutOfRange(call)
    /\ gen.pc = "failed" /\ gen.err = "AssertionError" /\ gen.pulls = 1
    /\ rend.status = "AssertionError"

\* C5: WaveSynth fails in two ways only, with a ValueError for the width
\* and an AssertionError for the arguments; no operation fails otherwise,
\* whatever the frequency at or below samplerate/2, the duration and the
\* levels of linear.
C5_TwoKindsOfFailure ==
    /\ ws.pc \in {"none", "made", "ValueError"}
    /\ rend.status \in {"none", "done", "hang", "AssertionError"}
    /\ gen.err \in {"none", "AssertionError"}

(***************************************************************************)
(* Claims about EchoFilter                                                 *)
(***************************************************************************)

\* after and delay are whole numbers of samples.
EchoWholeSamples ==
    /\ (ecp.samplerate * ecp.after) % FUnit = 0
    /\ (ecp.samplerate * ecp.delay) % FUnit = 0
\* A = after * samplerate and D = delay * samplerate.
EchoA == (ecp.samplerate * ecp.after) \div FUnit
EchoD == (ecp.samplerate * ecp.delay) \div FUnit
\* c^i * s[A + j - i*D] over den^m, or 0 while j < i*D.
EchoTerm(i, j) ==
    IF j < i * EchoD THEN 0
    ELSE EchoSrc(EchoA + j - i * EchoD)
            * Power(ecp.decay.num, i) * Power(ecp.decay.den, ecg.amount - i)
RECURSIVE EchoTerms(_, _)
EchoTerms(i, j) == IF i < 0 THEN 0 ELSE EchoTerm(i, j) + EchoTerms(i - 1, j)

C12_EveryEchoAboveAMillionth ==
    /\ ecg.pc # "ValueError"
    /\ (ecg.pc = "built" /\ ecp.decay.num < ecp.decay.den) =>
          /\ ecg.amount <= ecp.amount
          /\ \A i \in 1 .. ecg.amount :
                Power(ecp.decay.num, i) * Million > Power(ecp.decay.den, i)
          /\ ecg.amount < ecp.amount =>
                Power(ecp.decay.num, ecg.amount + 1) * Million
                   <= Power(ecp.decay.den, ecg.amount + 1)
    /\ (ecg.pc = "built" /\ ecp.decay.num >= ecp.decay.den) => ecg.amount = ecp.amount

\* The source elements the fan-out holds: those the branch furthest ahead
\* has read and the branch furthest behind has not.
EchoBuffered ==
    LET ahead == CHOOSE i \in DOMAIN ecg.reads : \A j \in DOMAIN ecg.reads : ecg.reads[i] >= ecg.reads[j]
        behind == CHOOSE i \in DOMAIN ecg.reads : \A j \in DOMAIN ecg.reads : ecg.reads[i] <= ecg.reads[j]
    IN  ecg.reads[ahead] - ecg.reads[behind]

C13_LockStep ==
    /\ \A s \in 1 .. Len(mxp.lens) :
          mxg.pc \in {"new", "running"} => mxg.reads[s] = Len(mxg.out)
    /\ \A k \in 1 .. Len(mxg.out) :
          mxg.out[k] =
             IF mxp.filter = "AmpModulation" THEN MixSrc(1, k - 1) * MixSrc(2, k - 1)
             ELSE MixSrc(1, k - 1) + MixSrc(2, k - 1)
                     + (IF Len(mxp.lens) = 3 THEN MixSrc(3, k - 1) ELSE 0)
    /\ (mxp.filter = "Mixing" /\ mxg.pc \notin {"new", "running"}) =>
          /\ mxg.pc = "ended"
          /\ \A s, t \in 1 .. Len(mxp.lens) : mxg.reads[s] = mxg.reads[t]

(***************************************************************************)
(* Claims about Pulse and FastPulse with PWM                               *)
(***************************************************************************)

\* Sample n (from 0) lies in the first half of its cycle: the phase
\* phase + n * frequency / samplerate, modulo 1, is below 1/2.
PwmFirstHalf(n) ==
    ((pwp.phase * pwp.samplerate + n * pwp.frequency * FUnit) % (pwp.samplerate * FUnit)) * 2
        < pwp.samplerate * FUnit

\* C14: for Pulse and FastPulse with a PWM modulator the pulse width used at
\* a sample is the modulator's value of that sample clamped strictly inside
\* (0, 1), whatever the pulsewidth argument; and with a modulator that is
\* constantly 0.5 every sample in the first half of a cycle is
\* +amplitude+bias and every sample in the second half is -amplitude+bias.
C14_PulseWidthIsTheModulator ==
    \A k \in 1 .. Len(pwg.out) :
        /\ pwg.out[k].pw > 0 /\ pwg.out[k].pw < FUnit
        /\ (PwmAt(pwp.pwm, k - 1) > 0 /\ PwmAt(pwp.pwm, k - 1) < FUnit) =>
              pwg.out[k].pw = PwmAt(pwp.pwm, k - 1)
        /\ pwp.pwm = "half" =>
              pwg.out[k].val = (IF PwmFirstHalf(k - 1) THEN pwp.amplitude ELSE 0 - pwp.amplitude)
                                  + pwp.bias

(***************************************************************************)
(* Claims about the streams of WaveSynth                                   *)
(***************************************************************************)

\* C15: a streaming operation other than linear_gen is unbounded: every
\* next() of it yields an integer and the stream never ends by itself;
\* linear_gen yields exactly int(duration*samplerate) integers and then
\* ends.  (Arguments that fail the validation are C4's.)
C15_StreamsAreUnbounded ==
    gen.err # "AssertionError" =>
        /\ call.kind # "linear" =>
              /\ gen.pc \in {"none", "created", "running"}
              /\ Len(gen.out) = gen.pulls
        /\ (call.kind = "linear" /\ call.duration >= 0) =>
              /\ gen.pc \in {"none", "created", "running", "ended"}
              /\ Len(gen.out) <= NumSamples(call)
              /\ gen.pc = "ended" => Len(gen.out) = NumSamples(call)

\* The integer sample x lies within the range of the sample width.
SampleInRange(x, samplewidth) ==
    \/ x.hi < Scale(samplewidth).hi
    \/ x.hi = Scale(samplewidth).hi /\ x.lo <= Scale(samplewidth).lo

\* C20: for a waveform operation whose amplitude and bias pass the
\* validation, in any combination, every integer sample lies within
\* [-(2^(8*samplewidth-1)-1), 2^(8*samplewidth-1)-1].
C20_SamplesInRange ==
    (call.kind # "linear" /\ ~OutOfRange(call)) =>
        /\ \A k \in 1 .. Len(gen.out) : SampleInRange(gen.out[k], ws.samplewidth)
        /\ \A k \in 1 .. Len(rend.samples) : SampleInRange(rend.samples[k], ws.samplewidth)

(***************************************************************************)
(* Claims about the oscillators with FM                                    *)
(***************************************************************************)

\* The increment of t per sample, 1/samplerate of a second, times a
\* frequency in 1/Grid Hz: in ticks.
TicksPerSample(freq) == (freq * Ticks) \div (SampleRate * Grid)

\* C16: under any sequence of values of the FM LFO the phase argument of
\* Sine, Triangle, Square, Sawtooth, Pulse and Harmonics is continuous: the
\* first is the initial phase, and each differs from the one before it by
\* the frequency of the sample before times the increment of t.
C16_PhaseIsContinuous ==
    /\ fmg.tts # <<>> => fmg.tts[1] = (fmp.phase * Ticks) \div Grid
    /\ \A n \in 2 .. Len(fmg.tts) :
          fmg.tts[n] - fmg.tts[n - 1] = TicksPerSample(fmg.freqs[n - 1])
\* C16's case: the frequency went up, then down, from sample to sample.
C16_Witness ==
    /\ Len(fmg.tts) >= 4
    /\ fmg.freqs[1] < fmg.freqs[2] /\ fmg.freqs[2] > fmg.freqs[3]
    /\ fmg.freqs[3] # fmg.freqs[4]
    /\ fmg.tts[4] - fmg.tts[3] = TicksPerSample(fmg.freqs[3])

(***************************************************************************)
(* Claims about ClipFilter                                                 *)
(***************************************************************************)

\* C17: ClipFilter clamps every sample into [minimum, maximum]; built with
\* a maximum only, or with no bound, it passes unchanged every sample that
\* is not above the maximum, the negative samples included.
C17_ClipClamps ==
    \A k \in 1 .. Len(clg) :
        LET v == clg[k].v
            y == clg[k].y
        IN  /\ (clp.minimum.given /\ clp.maximum.given
                   /\ clp.minimum.value <= clp.maximum.value) =>
                  y = (IF v < clp.minimum.value THEN clp.minimum.value
                       ELSE IF v > clp.maximum.value THEN clp.maximum.value ELSE v)
            /\ ~clp.minimum.given =>
                  y = (IF clp.maximum.given /\ v > clp.maximum.value
                       THEN clp.maximum.value ELSE v)

====
